---- MODULE Spec2Model ----
(***************************************************************************)
(* A model of ReactiveFile (src/src/index.ts): one document bound to a     *)
(* file, the static codec registry, and the save engine that is driven by  *)
(* notifications of the change observer.                                   *)
(*                                                                         *)
(* The JavaScript host runs one handler at a time.  A handler is one       *)
(* action, with one exception: a handler that reaches fs.writeFileSync is  *)
(* cut at that call into the part before it and FinishWrite, so that the   *)
(* time a file write takes is visible.  While a write started with         *)
(* writeFileSync is in progress the thread is blocked (ThreadBlocked) and  *)
(* no other handler runs.                                                  *)
(***************************************************************************)
EXTENDS Integers, Sequences, FiniteSets, Bags, TLC

\* ---------------------------------------------------------------- bounds
\* save() calls whose directory creation is pending at one time
MaxPending == 2
\* ------------------------------------------------------------ data values
\* property values: two scalars every codec encodes, and one value no codec
\* encodes (a BigInt: JSON.stringify and safeDump throw)
Scalars == {"v0", "v1"}
Unrepresentable == "bigint"
Values == Scalars \cup {Unrepresentable}

\* the bound object has one property, a, that holds a scalar or a container
\* with one property, x: {a: v} is [a |-> <<v>>], {a: {x: v}} is [a |-> <<"x", v>>]
Scalar(v) == [a |-> <<v>>]
Nested(v) == [a |-> <<"x", v>>]
Objs == {Scalar(v) : v \in Values} \cup {Nested(v) : v \in Scalars}
HasNested(obj) == Len(obj.a) = 2
EmptyObj == Scalar("v0")

\* ---------------------------------------------------------- file contents
Absent == [k |-> "absent"]
Garbage == [k |-> "garbage"]
Truncated == [k |-> "truncated"]
NoText == [k |-> "none"]
Text(codec, obj) == [k |-> "doc", codec |-> codec, data |-> obj]

\* ------------------------------------------------------------------ paths
\* a path is a directory and a file name; a name is a sequence of characters
NoPath == [dir |-> "", name |-> <<>>]
PathJ == [dir |-> "cfg", name |-> <<"s", ".", "j">>]
PathU == [dir |-> "cfg", name |-> <<"s", ".", "u">>]
PathOut == [dir |-> "out", name |-> <<"t", ".", "j">>]
\* a name whose extension is a registered key in upper case
PathUpper == [dir |-> "cfg", name |-> <<"s", ".", "Y">>]
Paths == {PathJ, PathU, PathOut, PathUpper}

\* parsePath(path).ext.slice(1): the text after the last "." of the name, ""
\* when there is none or when the only one is the first character
LastDot(name) ==
  LET dots == {i \in 1 .. Len(name) : name[i] = "."}
  IN IF dots = {} THEN 0 ELSE CHOOSE i \in dots : \A j \in dots : j <= i

Ext(name) ==
  IF LastDot(name) <= 1 THEN <<>> ELSE SubSeq(name, LastDot(name) + 1, Len(name))

\* --------------------------------------------------------- codec registry
\* format keys are strings (sequences of characters); <<>> is "" / null
NoType == <<>>
TypeKeys == {<<"j">>, <<"y">>, <<"u">>, <<>>}
\* the two codecs of the model: "J" (JSON) and "Y" (YAML); "undefined" is the
\* value of a key that holds no [parse, serialize] pair
Codecs == {"J", "Y"}
Undefined == "undefined"

\* the registrations made when the module is loaded
DefaultTypes ==
  [t \in TypeKeys |-> IF t = <<"j">> THEN "J" ELSE IF t = <<"y">> THEN "Y" ELSE Undefined]

VARIABLES
  types,      \* ReactiveFile.types
  file,       \* the file system: content of every path
  dirs,       \* the file system: directories that exist
  bound,      \* a ReactiveFile instance has been constructed
  handle,     \* what the caller holds: "none", "obj" (only the object), "doc"
  val,        \* this.val
  opts,       \* this.opts
  path,       \* this.path
  observed,   \* the observer's instrumentation of the object
  pending,    \* the save() calls awaiting their directory creation (a bag)
  writing,    \* the saves whose file write is in progress
  failures,   \* whether a save has failed, and where failures were delivered
  call        \* the latest call of the caller and how it returned

vars == <<types, file, dirs, bound, handle, val, opts, path, observed,
          pending, writing, failures, call>>

\* ---------------------------------------------------------------- options
Opts == [asyncSave : BOOLEAN, saveTo : {NoPath, PathOut}, deep : BOOLEAN,
         reactive : BOOLEAN, type : {NoType, <<"j">>, <<"u">>}]
DefaultOpts == [asyncSave |-> TRUE, saveTo |-> NoPath, deep |-> TRUE,
                reactive |-> TRUE, type |-> NoType]

\* op: the operation; done: it has returned; raised: the error it raised;
\* saves: the save()/saveSync() calls it made; fresh: no other handler has run
\* since it returned
NoCall == [op |-> "none", done |-> TRUE, raised |-> "none", saves |-> 0, fresh |-> TRUE]
\* root: the root is instrumented; deep: the flag the instrumentation was made
\* with; nested: the container under a is instrumented, by the walk of
\* observeData ("walk") or when it was assigned ("assigned"), or not ("no");
\* rearmed: observeData has run on a root that was instrumented already
NotObserved == [root |-> FALSE, deep |-> FALSE, nested |-> "no", rearmed |-> FALSE]

\* any: some save has failed; unhandled: the host has reported the rejection
\* of a promise nobody handles; dropped: a failure was delivered nowhere
NoFailures == [any |-> FALSE, unhandled |-> FALSE, dropped |-> FALSE]

\* the files before the program runs: a JSON document, a YAML document, a
\* file no codec reads, and no file yet at the saveTo path
InitFile ==
  [p \in Paths |-> IF p = PathJ THEN Text("J", Nested("v0"))
                   ELSE IF p = PathUpper THEN Text("Y", Nested("v0"))
                   ELSE IF p = PathU THEN Garbage ELSE Absent]

Init ==
  /\ types = DefaultTypes
  /\ file = InitFile
  /\ dirs = {"cfg"}
  /\ bound = FALSE
  /\ handle = "none"
  /\ val = EmptyObj
  /\ opts = DefaultOpts
  /\ path = NoPath
  /\ observed = NotObserved
  /\ pending = EmptyBag
  /\ writing = <<>>
  /\ failures = NoFailures
  /\ call = NoCall

\* ------------------------------------------------------------ the codecs
Representable(obj) == obj.a # <<Unrepresentable>>

\* this.types[type]: undefined for a key never set
Lookup(type) == IF type \in DOMAIN types THEN types[type] ELSE Undefined

\* the codec's parse function: "J" reads JSON text, "Y" reads YAML and JSON
Readable(codec, str) ==
  /\ str.k = "doc"
  /\ str.codec = codec \/ (codec = "Y" /\ str.codec = "J")

\* ReactiveFile.parse: indexing undefined raises a TypeError, and the parse
\* function raises its own error on text it rejects
parse(str, type) ==
  IF Lookup(type) = Undefined THEN [err |-> "TypeError", obj |-> EmptyObj]
  ELSE IF ~Readable(Lookup(type), str) THEN [err |-> "CodecError", obj |-> EmptyObj]
  ELSE [err |-> "none", obj |-> str.data]

\* ReactiveFile.serialize
serialize(obj, type) ==
  IF Lookup(type) = Undefined THEN [err |-> "TypeError", text |-> NoText]
  ELSE IF ~Representable(obj) THEN [err |-> "CodecError", text |-> NoText]
  ELSE [err |-> "none", text |-> Text(Lookup(type), obj)]

\* type = type || parsePath(path).ext.slice(1)
ResolveType(type, p) == IF type # NoType THEN type ELSE Ext(p.name)

\* --------------------------------------------------------- the JS thread
\* the slip of writing with an awaited fs.promises.writeFile in save(): only
\* the write of saveSync() holds the thread
ThreadBlockedSyncOnly == \E i \in 1 .. Len(writing) : writing[i].mode = "sync"

\* every file write is a writeFileSync: the thread does nothing else until
\* the write has returned
ThreadBlocked == writing # <<>>

\* the slip of silencing the promise in notify: this.save().catch(() => {})
RejectionSinkSwallowed(auto) == IF auto THEN "none" ELSE "promise"

\* where the rejection of a save()'s promise goes: notify drops the promise,
\* so the host reports it as an unhandled rejection; an explicit save()
\* returns the promise to its caller
RejectionSink(auto) == IF auto THEN "unhandled" ELSE "promise"

\* a save fails and its error goes to sink: "thrown" (raised in the caller),
\* "promise" (a rejected promise the caller holds) or "unhandled"
Fails(sink) ==
  failures' = [any |-> TRUE,
               unhandled |-> failures.unhandled \/ sink = "unhandled",
               dropped |-> failures.dropped \/ sink \notin {"thrown", "promise", "unhandled"}]

Call(op, done, raised, n) ==
  [op |-> op, done |-> done, raised |-> raised, saves |-> n, fresh |-> TRUE]

\* a call that issues no save returns (or raises) at once
Returns(op, raised) ==
  /\ call' = Call(op, TRUE, raised, 0)
  /\ UNCHANGED <<pending, writing, dirs, failures>>

\* save(), up to its await: the object is encoded and the directory creation
\* is started; an encode failure rejects the returned promise
save(v, type, auto, op) ==
  LET s == serialize(v, type)
  IN /\ IF s.err # "none"
        THEN pending' = pending /\ Fails(RejectionSink(auto))
        ELSE /\ pending' = pending (+) SetToBag({[auto |-> auto, text |-> s.text]})
             /\ failures' = failures
     /\ call' = Call(op, TRUE, "none", 1)
     /\ UNCHANGED <<writing, dirs>>

\* the slip of catching the encode error in saveSync() and writing the text
\* that is there, none
saveSyncEncodeCaught(v, type, p, auto, op) ==
  LET s == serialize(v, type)
  IN \/ /\ s.err = "none"
        /\ Fails("thrown")
        /\ call' = Call(op, TRUE, "MkdirError", 1)
        /\ UNCHANGED <<pending, writing, dirs>>
     \/ /\ dirs' = dirs \cup {p.dir}
        /\ writing' = Append(writing, [mode |-> "sync", auto |-> auto, text |-> s.text])
        /\ call' = Call(op, FALSE, "none", 1)
        /\ UNCHANGED <<pending, failures>>

\* saveSync(), up to the return of mkdirSync; the write is FinishWrite
saveSync(v, type, p, auto, op) ==
  LET s == serialize(v, type)
  IN \/ /\ s.err # "none"
        /\ Fails("thrown")
        /\ call' = Call(op, TRUE, s.err, 1)
        /\ UNCHANGED <<pending, writing, dirs>>
     \/ /\ s.err = "none"
        /\ Fails("thrown")
        /\ call' = Call(op, TRUE, "MkdirError", 1)
        /\ UNCHANGED <<pending, writing, dirs>>
     \/ /\ s.err = "none"
        /\ dirs' = dirs \cup {p.dir}
        /\ writing' = Append(writing, [mode |-> "sync", auto |-> auto, text |-> s.text])
        /\ call' = Call(op, FALSE, "none", 1)
        /\ UNCHANGED <<pending, failures>>

\* the slip of ignoring asyncSave in notify: this.save() in both modes
notifyAlwaysAsync(v, o, p, op) == save(v, o.type, TRUE, op)

\* the slip of a missing else in notify: in non-blocking mode the save is
\* issued twice
notifyTwice(v, o, p, op) ==
  LET s == serialize(v, o.type)
      e == [auto |-> TRUE, text |-> s.text]
  IN IF ~o.asyncSave THEN saveSync(v, o.type, p, TRUE, op)
     ELSE /\ IF s.err # "none"
             THEN pending' = pending /\ Fails("unhandled")
             ELSE pending' = pending (+) SetToBag({e}) (+) SetToBag({e}) /\ failures' = failures
          /\ call' = Call(op, TRUE, "none", 2)
          /\ UNCHANGED <<writing, dirs>>

\* the notify closure of react()
notify(v, o, p, op) ==
  IF o.asyncSave THEN save(v, o.type, TRUE, op) ELSE saveSync(v, o.type, p, TRUE, op)

\* observeData(root, deep, notify): the root is instrumented, and with deep
\* every container below it; an earlier instrumentation is replaced
observeData(v, deep) ==
  [root |-> TRUE, deep |-> deep,
   nested |-> IF deep /\ HasNested(v) THEN "walk" ELSE "no",
   rearmed |-> observed.root]

\* the slip of leaving out the call of notify() that ends react()
reactNoFirstSave(v, o, p, op) ==
  IF ~o.reactive
  THEN observed' = observed /\ Returns(op, "none")
  ELSE observed' = observeData(v, o.deep) /\ Returns(op, "none")

\* the slip of dropping the guard on opts.reactive
reactUnguarded(v, o, p, op) ==
  observed' = observeData(v, o.deep) /\ notify(v, o, p, op)

\* the slip of not handing opts.deep to observeData
reactShallow(v, o, p, op) ==
  IF ~o.reactive
  THEN observed' = observed /\ Returns(op, "none")
  ELSE observed' = observeData(v, FALSE) /\ notify(v, o, p, op)

\* react(), called on value v with options o and destination p
react(v, o, p, op) ==
  IF ~o.reactive
  THEN observed' = observed /\ Returns(op, "none")
  ELSE observed' = observeData(v, o.deep) /\ notify(v, o, p, op)

CtorOps == {"load", "from"}

\* what the caller is left with when the constructor raised
AfterFailedCtor(op) == IF op = "from" THEN "obj" ELSE "none"

\* the slip of this.path = path || opts.saveTo
constructPathFirst(v, o, p, op) ==
  /\ bound' = TRUE
  /\ val' = v
  /\ opts' = o
  /\ path' = IF p # NoPath THEN p ELSE o.saveTo
  /\ react(v, o, path', op)
  /\ handle' = IF ~call'.done THEN "none"
               ELSE IF call'.raised = "none" THEN "doc" ELSE AfterFailedCtor(op)

\* the constructor
construct(v, o, p, op) ==
  /\ bound' = TRUE
  /\ val' = v
  /\ opts' = o
  /\ path' = IF o.saveTo # NoPath THEN o.saveTo ELSE p
  /\ react(v, o, path', op)
  /\ handle' = IF ~call'.done THEN "none"
               ELSE IF call'.raised = "none" THEN "doc" ELSE AfterFailedCtor(op)

CanCall == ~ThreadBlocked /\ BagCardinality(pending) < MaxPending

\* the slip of catching the error of parse and constructing the document from
\* an empty object
LoadOpParseCaught(p, o) ==
  LET type == ResolveType(o.type, p)
      r == parse(file[p], type)
  IN /\ ~bound /\ CanCall
     /\ IF file[p] = Absent
        THEN Returns("load", "ReadError") /\ UNCHANGED <<bound, handle, val, opts, path, observed>>
        ELSE construct(r.obj, [o EXCEPT !.type = type], p, "load")
     /\ UNCHANGED <<types, file>>

\* load and loadSync: read the file, parse it, construct the document.  The
\* file is read at one instant in both, and nothing of the model runs between
\* the read of load and its parse
LoadOp(p, o) ==
  LET type == ResolveType(o.type, p)
      r == parse(file[p], type)
  IN /\ ~bound /\ CanCall
     /\ IF file[p] = Absent
        THEN Returns("load", "ReadError") /\ UNCHANGED <<bound, handle, val, opts, path, observed>>
        ELSE IF r.err # "none"
        THEN Returns("load", r.err) /\ UNCHANGED <<bound, handle, val, opts, path, observed>>
        ELSE construct(r.obj, [o EXCEPT !.type = type], p, "load")
     /\ UNCHANGED <<types, file>>

Load(p, o) == LoadOp(p, o)

LoadSync(p, o) == LoadOp(p, o)

\* the slip of leaving out the check of saveTo in from()
FromUnchecked(obj, o) ==
  /\ ~bound /\ CanCall
  /\ construct(obj, [o EXCEPT !.type = ResolveType(o.type, o.saveTo)], NoPath, "from")
  /\ UNCHANGED <<types, file>>

FromObjs == {Nested("v0"), Scalar(Unrepresentable)}

From(obj, o) ==
  /\ ~bound /\ CanCall
  /\ IF o.saveTo = NoPath
     THEN Returns("from", "Error") /\ UNCHANGED <<bound, handle, val, opts, path, observed>>
     ELSE construct(obj, [o EXCEPT !.type = ResolveType(o.type, o.saveTo)], NoPath, "from")
  /\ UNCHANGED <<types, file>>

\* doc.react()
CallReact ==
  /\ handle = "doc" /\ CanCall
  /\ react(val, opts, path, "react")
  /\ UNCHANGED <<types, file, bound, handle, val, opts, path>>

\* doc.save()
CallSave ==
  /\ handle = "doc" /\ CanCall
  /\ save(val, opts.type, FALSE, "save")
  /\ UNCHANGED <<types, file, bound, handle, val, opts, path, observed>>

\* doc.saveSync()
CallSaveSync ==
  /\ handle = "doc" /\ CanCall
  /\ saveSync(val, opts.type, path, FALSE, "saveSync")
  /\ UNCHANGED <<types, file, bound, handle, val, opts, path, observed>>

\* ---------------------------------------------- mutations of the object
\* a write through an instrumented container calls notify once, after the
\* write has taken effect
Mutation(op, v, obs, notified) ==
  /\ handle \in {"obj", "doc"} /\ CanCall
  /\ val' = v
  /\ observed' = obs
  /\ IF notified THEN notify(v, opts, path, op) ELSE Returns(op, "none")
  /\ UNCHANGED <<types, file, bound, handle, opts, path>>

\* doc.val.a = x, for a scalar x
SetA(x) ==
  Mutation("set", Scalar(x), [observed EXCEPT !.nested = "no"], observed.root)

\* doc.val.a = {x: x}: with deep, the new container is instrumented as part
\* of the assignment
SetNested(x) ==
  Mutation("set", Nested(x),
           [observed EXCEPT !.nested = IF observed.root /\ observed.deep THEN "assigned" ELSE "no"],
           observed.root)

\* doc.val.a.x = x
SetNestedX(x) ==
  /\ HasNested(val)
  /\ Mutation("setNestedX", Nested(x), observed, observed.nested # "no")

\* ------------------------------------------------ completions of a save
Remove(seq, i) == SubSeq(seq, 1, i - 1) \o SubSeq(seq, i + 1, Len(seq))

Stale == [call EXCEPT !.fresh = FALSE]

\* the slip of encoding after the await in save(): the text written is that
\* of the object when the directory creation has settled
MkdirDoneEncodeLate(s) ==
  /\ ~ThreadBlocked
  /\ BagIn(s, pending)
  /\ pending' = pending (-) SetToBag({s})
  /\ \/ /\ dirs' = dirs \cup {path.dir}
        /\ writing' = Append(writing, [mode |-> "async", auto |-> s.auto,
                                       text |-> serialize(val, opts.type).text])
        /\ failures' = failures
     \/ /\ Fails(RejectionSink(s.auto))
        /\ UNCHANGED <<dirs, writing>>
  /\ call' = Stale
  /\ UNCHANGED <<types, file, bound, handle, val, opts, path, observed>>

\* the slip of catching the error of the directory creation in save() and
\* writing all the same
MkdirDoneIgnoreError(s) ==
  /\ ~ThreadBlocked
  /\ BagIn(s, pending)
  /\ pending' = pending (-) SetToBag({s})
  /\ \/ dirs' = dirs \cup {path.dir}
     \/ dirs' = dirs
  /\ writing' = Append(writing, [mode |-> "async", auto |-> s.auto, text |-> s.text])
  /\ failures' = failures
  /\ call' = Stale
  /\ UNCHANGED <<types, file, bound, handle, val, opts, path, observed>>

\* the slip of making the continuation of a save() wait for the other pending
\* saves before it goes on
MkdirDoneWaitsForOthers(s) ==
  /\ ~ThreadBlocked
  /\ BagIn(s, pending)
  /\ BagCardinality(pending) = 1
  /\ pending' = pending (-) SetToBag({s})
  /\ \/ /\ dirs' = dirs \cup {path.dir}
        /\ writing' = Append(writing, [mode |-> "async", auto |-> s.auto, text |-> s.text])
        /\ failures' = failures
     \/ /\ Fails(RejectionSink(s.auto))
        /\ UNCHANGED <<dirs, writing>>
  /\ call' = Stale
  /\ UNCHANGED <<types, file, bound, handle, val, opts, path, observed>>

\* the directory creation of the pending save s has settled; the pending ones
\* settle in any order.  The function resumes after its await and reaches
\* writeFileSync, or its promise is rejected
MkdirDone(s) ==
  /\ ~ThreadBlocked
  /\ BagIn(s, pending)
  /\ pending' = pending (-) SetToBag({s})
  /\ \/ /\ dirs' = dirs \cup {path.dir}
        /\ writing' = Append(writing, [mode |-> "async", auto |-> s.auto, text |-> s.text])
        /\ failures' = failures
     \/ /\ Fails(RejectionSink(s.auto))
        /\ UNCHANGED <<dirs, writing>>
  /\ call' = Stale
  /\ UNCHANGED <<types, file, bound, handle, val, opts, path, observed>>

\* writeFileSync(this.path, serialized) of write i returns: the file holds the
\* whole text, or the call raised before or after truncating the file
WriteOutcomes == {"ok", "notOpened", "cutShort"}

FinishWrite(i, out) ==
  LET w == writing[i]
      sync == w.mode = "sync"
      err == IF out = "ok" THEN "none" ELSE "WriteError"
  IN /\ i \in 1 .. Len(writing)
     /\ out = "ok" => path.dir \in dirs
     /\ file' = IF out = "ok" THEN [file EXCEPT ![path] = w.text]
                ELSE IF out = "cutShort" THEN [file EXCEPT ![path] = Truncated]
                ELSE file
     /\ IF out = "ok" THEN failures' = failures
        ELSE Fails(IF sync THEN "thrown" ELSE RejectionSink(w.auto))
     /\ writing' = Remove(writing, i)
     /\ call' = IF sync THEN [call EXCEPT !.done = TRUE, !.raised = err] ELSE Stale
     /\ handle' = IF sync /\ call.op \in CtorOps
                  THEN (IF out = "ok" THEN "doc" ELSE AfterFailedCtor(call.op))
                  ELSE handle
     /\ UNCHANGED <<types, dirs, bound, val, opts, path, observed, pending>>

\* ------------------------------------------------------ registry calls
RegistryCall(op) ==
  /\ call' = Call(op, TRUE, "none", 0)
  /\ UNCHANGED <<file, dirs, bound, handle, val, opts, path, observed, pending, writing,
                 failures>>

\* this.types[type] = [parse, serialize]
registerType(reg, type, codec) == [reg EXCEPT ![type] = codec]

\* this.types[type] = this.types[from]
assignType(reg, type, from) == [reg EXCEPT ![type] = reg[from]]

\* for (const type of types) this.registerType(type, parse, serialize)
RECURSIVE registerTypes(_, _, _)
registerTypes(reg, ts, codec) ==
  IF ts = <<>> THEN reg
  ELSE registerTypes(registerType(reg, Head(ts), codec), Tail(ts), codec)

\* for (const type of types) this.assignType(type, from)
RECURSIVE assignTypes(_, _, _)
assignTypes(reg, ts, from) ==
  IF ts = <<>> THEN reg
  ELSE assignTypes(assignType(reg, Head(ts), from), Tail(ts), from)

RegisterType(type, codec) ==
  types' = registerType(types, type, codec) /\ RegistryCall("registerType")

AssignType(type, from) ==
  types' = assignType(types, type, from) /\ RegistryCall("assignType")

RegisterTypes(ts, codec) ==
  types' = registerTypes(types, ts, codec) /\ RegistryCall("registerTypes")

AssignTypes(ts, from) ==
  types' = assignTypes(types, ts, from) /\ RegistryCall("assignTypes")

\* the lists of keys given to registerTypes and assignTypes
KeyLists == {<<t>> : t \in TypeKeys} \cup {<<t, u>> : t, u \in TypeKeys}

\* -------------------------------------------------------- specification
Next ==
  \/ \E p \in Paths, o \in Opts : Load(p, o)
  \/ \E p \in Paths, o \in Opts : LoadSync(p, o)
  \/ \E obj \in FromObjs, o \in Opts : From(obj, o)
  \/ CallReact
  \/ CallSave
  \/ CallSaveSync
  \/ \E x \in Values : SetA(x)
  \/ \E x \in Scalars : SetNested(x)
  \/ \E x \in Scalars : SetNestedX(x)
  \/ \E s \in BagToSet(pending) : MkdirDone(s)
  \/ \E i \in 1 .. Len(writing), out \in WriteOutcomes : FinishWrite(i, out)

Spec == Init /\ [][Next]_vars

\* the runs under fair scheduling: every operation of the program, on a
\* document created with deep observation and the format of its extension
\* (FairOpts), with the values the object is set to taken from FairValues (as
\* scalars) and FairNested (inside the container)
FairOpts == {o \in Opts : o.type = NoType /\ o.deep}
FairValues == {"v1", Unrepresentable}
FairNested == {"v0"}

\* the saves that can be pending in these runs, issued by notify (auto) or by
\* the caller
SaveEntries ==
  {[auto |-> a, text |-> Text("J", obj)] :
     a \in BOOLEAN,
     obj \in {Nested(x) : x \in FairNested} \cup {Scalar(x) : x \in FairValues \cap Scalars}}

NextFair ==
  \/ \E p \in Paths, o \in FairOpts : Load(p, o)
  \/ \E p \in Paths, o \in FairOpts : LoadSync(p, o)
  \/ \E obj \in FromObjs, o \in FairOpts : From(obj, o)
  \/ CallReact
  \/ CallSave
  \/ CallSaveSync
  \/ \E x \in FairValues : SetA(x)
  \/ \E x \in FairNested : SetNested(x)
  \/ \E x \in FairNested : SetNestedX(x)
  \/ \E s \in BagToSet(pending) : MkdirDone(s)
  \/ \E i \in 1 .. Len(writing), out \in WriteOutcomes : FinishWrite(i, out)

\* the host's scheduling: the event loop hands the completion of every
\* directory creation to its continuation whenever the thread is free again
\* and again, and a writeFileSync that was called returns
FairSpec ==
  /\ Init /\ [][NextFair]_vars
  /\ \A s \in SaveEntries : SF_vars(MkdirDone(s))
  /\ WF_vars(\E i \in 1 .. Len(writing), out \in WriteOutcomes : FinishWrite(i, out))

\* the registry alone: calls of the four static registration functions
NextTypes ==
  \/ \E t \in TypeKeys, c \in Codecs : RegisterType(t, c)
  \/ \E t, f \in TypeKeys : AssignType(t, f)
  \/ \E ts \in KeyLists, c \in Codecs : RegisterTypes(ts, c)
  \/ \E ts \in KeyLists, f \in TypeKeys : AssignTypes(ts, f)

SpecTypes == Init /\ [][NextTypes]_vars

\* ================================================================ claims
\* the text the bound format gives the current object (NoText when it has none)
CurText == serialize(val, opts.type).text
CurErr == serialize(val, opts.type).err
Settled == pending = EmptyBag /\ writing = <<>>
MutationOps == {"set", "setNestedX"}

\* C1 (as claimed): in non-blocking mode (reactive and deep, so that every
\* mutation notifies), once every save issued by the constructor and the
\* mutations has settled and none has failed, the destination file holds the
\* encoding of the object's final state
C1_FinalStateOnDisk ==
  (bound /\ handle = "doc" /\ opts.asyncSave /\ opts.reactive /\ opts.deep
     /\ Settled /\ ~failures.any)
  => file[path] = CurText

\* C2 (as claimed): once an explicit saveSync() has returned without raising,
\* the destination file holds the encoding of the current state for as long
\* as the caller makes no further call and no save fails, whatever the saves
\* that were pending at the flush do
C2_FlushIsDurable ==
  (bound /\ call.op = "saveSync" /\ call.done /\ call.raised = "none" /\ ~failures.any)
  => file[path] = CurText

\* C3: no two file writes of the document are in progress at the same time
C3_WritesNeverOverlap == Len(writing) <= 1

\* a save writes the file while another save() is still pending
C3_Witness ==
  /\ Len(writing) = 1
  /\ writing[1].mode = "async"
  /\ pending # EmptyBag

\* the latest call made the observer (or react itself) call notify
Notified ==
  \/ call.op \in {"load", "from", "react"}
  \/ call.op = "set" /\ observed.root
  \/ call.op = "setNestedX" /\ observed.nested # "no"

\* C4: in blocking mode a call that notifies makes one save and, when it
\* returns without raising, the file holds the encoding of the current state:
\* a save that did not put the state on disk has raised in the call, an encode
\* failure with the error of the encoding
C4_BlockingSaveCompletes ==
  (bound /\ ~opts.asyncSave /\ opts.reactive /\ Notified /\ call.done /\ call.fresh)
  => /\ call.saves = 1
     /\ call.raised = "none" => file[path] = CurText
     /\ CurErr # "none" => call.raised = CurErr

\* a mutation in blocking mode has returned and its state is on disk
C4_Witness ==
  /\ bound /\ ~opts.asyncSave /\ opts.reactive
  /\ call.op = "set" /\ call.done /\ call.fresh /\ call.raised = "none"
  /\ val = Scalar("v1")
  /\ file[path] = CurText

\* C5: in non-blocking mode a mutating call never raises, no failure of a save
\* is delivered nowhere, and the failure of the save a mutation triggers is
\* reported by the host as an unhandled rejection
C5_NoSilentFailure ==
  /\ ~failures.dropped
  /\ (bound /\ opts.asyncSave /\ call.op \in MutationOps) => call.raised = "none"
  /\ (bound /\ opts.asyncSave /\ opts.reactive /\ call.op = "set" /\ CurText = NoText)
     => failures.unhandled

\* a mutation to a value the codec cannot encode returned normally and the
\* failure of its save was reported
C5_Witness ==
  /\ bound /\ opts.asyncSave /\ opts.reactive
  /\ call.op = "set" /\ call.raised = "none" /\ call.fresh
  /\ val = Scalar(Unrepresentable)
  /\ Lookup(opts.type) # Undefined
  /\ failures.unhandled

\* C6: with reactive = false nothing is instrumented and neither the
\* constructor, react() nor a mutation issues a save: every save pending or
\* writing is an explicit one
C6_NoSaveWhenNotReactive ==
  (bound /\ ~opts.reactive)
  => /\ observed = NotObserved
     /\ \A s \in BagToSet(pending) : ~s.auto
     /\ \A i \in 1 .. Len(writing) : ~writing[i].auto
     /\ call.op \in {"load", "from", "react"} \cup MutationOps => call.saves = 0

\* a document that is not reactive was mutated and the file is as it was
C6_Witness ==
  /\ bound /\ ~opts.reactive /\ handle = "doc"
  /\ call.op = "set" /\ call.fresh
  /\ val = Scalar("v1")
  /\ file[path] = Text("J", Nested("v0"))

\* the save the latest call issued carries the current state
IssuedCurrent ==
  IF opts.asyncSave THEN BagIn([auto |-> TRUE, text |-> CurText], pending)
  ELSE IF call.done THEN call.raised = "none" => file[path] = CurText
  ELSE writing = <<[mode |-> "sync", auto |-> TRUE, text |-> CurText]>>

C9_UnknownFormatError ==
  /\ (call.op = "load" /\ ~bound)
     => call.raised \in {"ReadError", "CodecError", "UnknownFormat"}
  /\ (bound /\ Lookup(opts.type) = Undefined)
     => /\ Settled
        /\ file[path] = Absent
        /\ path.dir \notin dirs
        /\ (call.op = "saveSync" /\ call.done) => call.raised = "UnknownFormat"

\* C10 (as claimed): assignType and assignTypes from a key that holds no codec
\* raise UnknownFormat and leave the registry as it was
C10_AssignFromUnknownFails ==
  [][/\ \A t, f \in TypeKeys :
          (AssignType(t, f) /\ types[f] = Undefined)
          => (types' = types /\ call'.raised = "UnknownFormat")
     /\ \A ts \in KeyLists, f \in TypeKeys :
          (AssignTypes(ts, f) /\ types[f] = Undefined)
          => (types' = types /\ call'.raised = "UnknownFormat")]_vars

\* a step in which the caller makes a call: no write is in progress before
\* it, and no completion has run since the call it leaves on record
CallerStep == writing = <<>> /\ call'.fresh

\* the encoding of the state a call leaves fails
EncodeFails(v, type) == Lookup(type) = Undefined \/ ~Representable(v)

\* C11: a call whose save()/saveSync() fails in the encode step leaves the
\* file as it was and starts no write, now or later: no write is in progress
\* after the call and no save has been added to the pending ones
C11_EncodeFailureWritesNothing ==
  [][(CallerStep /\ bound' /\ call'.saves >= 1 /\ EncodeFails(val', opts'.type))
     => (file' = file /\ writing' = <<>> /\ pending' = pending)]_vars

\* an explicit saveSync() of a state the codec cannot encode has raised, and
\* the file holds the text of the last successful write
C11_Witness ==
  /\ bound /\ handle = "doc" /\ ~opts.reactive
  /\ call.op = "saveSync" /\ call.done /\ call.raised = "CodecError"
  /\ val = Scalar(Unrepresentable)
  /\ path = PathOut /\ file[path] = Text("J", Scalar("v1"))

\* C12: from() without saveTo raises its error ('saveTo path must be
\* defined!') before a document is constructed: the object is not
\* instrumented, no save is issued and nothing is written or about to be
C12_FromWithoutSaveToFails ==
  [][~bound =>
     \A obj \in FromObjs, o \in Opts :
       (o.saveTo = NoPath /\ From(obj, o))
       => /\ call'.op = "from" /\ call'.done /\ call'.raised = "Error" /\ call'.saves = 0
          /\ ~bound' /\ handle' = "none"
          /\ observed' = NotObserved
          /\ pending' = EmptyBag /\ writing' = <<>>
          /\ file' = file /\ dirs' = dirs]_vars

\* from() has raised for want of saveTo and the file system is untouched
C12_Witness ==
  /\ call.op = "from" /\ call.done /\ call.raised = "Error"
  /\ ~bound /\ observed = NotObserved /\ Settled
  /\ file = InitFile /\ dirs = {"cfg"}

\* load(p, o) fails at load time: the file cannot be read, the format is not
\* registered, or the codec rejects the text
LoadFails(p, o) ==
  \/ file[p] = Absent
  \/ Lookup(ResolveType(o.type, p)) = Undefined
  \/ ~Readable(Lookup(ResolveType(o.type, p)), file[p])

\* C13: a load or loadSync that fails at load time raises and returns no
\* document: nothing is constructed or instrumented, no save is issued and
\* the files, the loaded one included, are as they were
C13_FailedLoadAborts ==
  [][~bound =>
     \A p \in Paths, o \in Opts :
       (LoadFails(p, o) /\ (Load(p, o) \/ LoadSync(p, o)))
       => /\ call'.op = "load" /\ call'.done /\ call'.saves = 0
          /\ call'.raised \in {"ReadError", "TypeError", "CodecError"}
          /\ ~bound' /\ handle' = "none"
          /\ observed' = NotObserved
          /\ pending' = EmptyBag /\ writing' = <<>>
          /\ file' = file /\ dirs' = dirs]_vars

\* a load of a file the codec rejects has raised and the file is as it was
C13_Witness ==
  /\ call.op = "load" /\ call.done /\ call.raised = "CodecError"
  /\ ~bound /\ handle = "none" /\ observed = NotObserved /\ Settled
  /\ file[PathU] = Garbage /\ file = InitFile

\* the lower-case form of a string of the model's alphabet
ToLower(str) ==
  [i \in 1 .. Len(str) |-> IF str[i] = "J" THEN "j" ELSE IF str[i] = "Y" THEN "y" ELSE str[i]]

\* C14 (as claimed): with no type option, load and loadSync take the
\* lower-cased extension of the path as format: a file whose lower-cased
\* extension is a registered format that reads its text is loaded, under that
\* format
C14_ExtensionLowerCased ==
  [][~bound =>
     \A p \in Paths, o \in Opts :
       (/\ o.type = NoType
        /\ file[p] # Absent
        /\ Lookup(ToLower(Ext(p.name))) # Undefined
        /\ Readable(Lookup(ToLower(Ext(p.name))), file[p])
        /\ (Load(p, o) \/ LoadSync(p, o)))
       => (bound' /\ opts'.type = ToLower(Ext(p.name)))]_vars

\* C15: under the host's fair scheduling every pending save() settles (a save
\* of a given text is either pending only finitely often, or completions of
\* such saves keep happening) and every write that was started returns; a
\* directory creation that settles starts the write or fails where it is
\* seen, and a write that returns has written the whole text or failed where
\* it is seen
C15_EverySaveSettles ==
  /\ [](\A s \in BagToSet(pending) : s \in SaveEntries)
  /\ \A s \in SaveEntries : []<><<MkdirDone(s)>>_vars \/ <>[](~BagIn(s, pending))
  /\ (writing # <<>>) ~> (writing = <<>>)
  /\ [][/\ BagCardinality(pending') < BagCardinality(pending)
           => \/ Len(writing') = Len(writing) + 1 /\ writing'[Len(writing')].mode = "async"
              \/ failures'.any /\ ~failures'.dropped
        /\ Len(writing') < Len(writing)
           => \/ file'[path] = writing[1].text
              \/ failures'.any /\ ~failures'.dropped]_vars

\* a save() issued by a mutation has settled with its text on disk
C15_Witness ==
  /\ bound /\ opts.asyncSave /\ opts.reactive
  /\ call.op = "set" /\ ~call.fresh /\ call.saves = 1
  /\ Settled /\ ~failures.any
  /\ val = Scalar("v1") /\ path = PathOut /\ file[path] = CurText

\* C16 (as claimed): the destination file always holds what it held before the
\* document was bound or the complete text of one state of the object (here:
\* the complete encoding of some object; which states the object has held is
\* not recorded)
C16_FileHoldsSnapshot ==
  bound => file[path] \in {InitFile[path]} \cup {Text(c, obj) : c \in Codecs, obj \in Objs}

\* C17: a load that constructs a document binds it to saveTo when given and
\* to the load path otherwise, from() binds it to saveTo, the destination of
\* a document never changes, and a step that changes a file changes the
\* destination only: with saveTo different from the load path, the loaded file
\* is never written
C17_WritesGoToSaveTo ==
  [][/\ ~bound =>
          /\ \A p \in Paths, o \in Opts :
                ((Load(p, o) \/ LoadSync(p, o)) /\ bound')
                => path' = (IF o.saveTo # NoPath THEN o.saveTo ELSE p)
          /\ \A obj \in FromObjs, o \in Opts :
                (From(obj, o) /\ bound') => path' = o.saveTo
     /\ bound => path' = path
     /\ \A q \in Paths : file'[q] # file[q] => (bound /\ q = path)]_vars

\* a load with a saveTo path has returned: the save of the constructor has
\* written the text to saveTo and the loaded file is as it was
C17_Witness ==
  /\ bound /\ handle = "doc" /\ opts.saveTo = PathOut /\ path = PathOut
  /\ call.op = "load" /\ call.done /\ call.raised = "none" /\ call.saves = 1
  /\ ~opts.asyncSave
  /\ file[PathOut] = CurText
  /\ file[PathJ] = InitFile[PathJ]

\* C18: a save encodes, then creates the directory, then writes.  A save that
\* is pending or writing has its text; a call whose encoding fails creates no
\* directory; a write is in progress only when the directory of the
\* destination exists, and the step that starts one is not a step in which a
\* save failed; a file changes only in a directory that exists
C18_EncodeMkdirWrite ==
  [][/\ \A s \in BagToSet(pending') : s.text # NoText
     /\ \A i \in 1 .. Len(writing') : writing'[i].text # NoText /\ path'.dir \in dirs'
     /\ (CallerStep /\ bound' /\ call'.saves >= 1 /\ EncodeFails(val', opts'.type))
        => dirs' = dirs
     /\ Len(writing') > Len(writing) => failures' = failures
     /\ (Len(writing') = Len(writing) /\ failures' # failures) => file' = file
     /\ \A q \in Paths : file'[q] # file[q] => q.dir \in dirs]_vars

\* the directory creation of a save() to a directory that did not exist has
\* failed: the save has settled, no write was started and there is neither
\* directory nor file
C18_Witness ==
  /\ bound /\ opts.asyncSave /\ path = PathOut
  /\ call.op \in CtorOps /\ ~call.fresh
  /\ Settled /\ failures.any
  /\ "out" \notin dirs /\ file[PathOut] = Absent

\* C19: a call that issues a save() adds to the pending saves the text of the
\* object as the call leaves it; no later step changes the text of a pending
\* save; the write started when the directory creation of a pending save
\* settles carries that save's text, and the write puts it in the file,
\* whatever the object holds by then
C19_SaveWritesTextOfCall ==
  [][/\ (CallerStep /\ pending' # pending)
        => \E a \in BOOLEAN :
             pending' = pending (+) SetToBag({[auto |-> a, text |-> serialize(val', opts'.type).text]})
     /\ ~CallerStep
        => \/ pending' = pending
           \/ \E s \in BagToSet(pending) :
                /\ pending' = pending (-) SetToBag({s})
                /\ \/ writing' = writing
                   \/ writing' = <<[mode |-> "async", auto |-> s.auto, text |-> s.text]>>
     /\ (Len(writing') < Len(writing) /\ file' # file)
        => file'[path] \in {writing[1].text, Truncated}]_vars

\* a save() issued by the constructor has written, after the object was
\* mutated and the later save had settled: the file holds the state from the
\* time of the call and not the state at the time of the write
C19_Witness ==
  /\ bound /\ opts.asyncSave /\ opts.reactive /\ path = PathOut
  /\ Settled /\ ~failures.any
  /\ val = Scalar("v1")
  /\ file[path] = Text("J", Nested("v0"))

\* C20: on a reactive document, the creating call and every call of react()
\* issue one save of the state the object has, though nothing was mutated: in
\* non-blocking mode the save is pending with the text of the current state
\* (or its encoding has failed and the host has the rejection), in blocking
\* mode the file holds that text once the call has returned without raising
C20_ReactIssuesOneSave ==
  (bound /\ opts.reactive /\ call.op \in CtorOps \cup {"react"} /\ call.fresh)
  => /\ call.saves = 1
     /\ IF CurErr = "none" THEN IssuedCurrent
        ELSE failures.any /\ (opts.asyncSave => failures.unhandled)
     /\ opts.asyncSave => (call.done /\ call.raised = "none")

\* C20 (as claimed), its consequence for a load with the default options: when
\* the caller makes its first mutation after load, the save of the
\* constructor has written the file
C20_WrittenBeforeFirstMutation ==
  [][(bound /\ call.op = "load" /\ opts = [DefaultOpts EXCEPT !.type = <<"j">>]
        /\ call'.op \in MutationOps)
     => (Settled /\ ~failures.any /\ file[path] = CurText)]_vars

\* a load with the default options has returned: the save of the constructor
\* is pending with the text of the loaded object and nothing was written
C20_Witness ==
  /\ bound /\ handle = "doc" /\ opts = [DefaultOpts EXCEPT !.type = <<"j">>]
  /\ call.op = "load" /\ call.done /\ call.fresh /\ call.saves = 1
  /\ pending = SetToBag({[auto |-> TRUE, text |-> CurText]})
  /\ writing = <<>> /\ file = InitFile
====
